---- MODULE Spec2Model ----
(***************************************************************************)
(* MixedAI of src/rts/game_MC/ai.h: a composite agent that owns a backup   *)
(* rule agent and a main agent, delegates each Act to one of them by a     *)
(* per-episode tick threshold, and decays the bound of that threshold at   *)
(* every GameEnd.  The base class elf::AI_T (elf/ai.h), CmdLineUtils::split *)
(* (engine/cmd_util.h) and the Tick type are defined in other headers; what *)
(* the model needs of them follows the specification of the agent contract.*)
(* A call through a null unique_ptr is modelled as the crash it produces.  *)
(***************************************************************************)
EXTENDS Integers, Sequences, FiniteSets, TLC

\* ------------------------------------------------------------------ bounds
\* Ticks the driver passes to Act and GameEnd are 0..MaxTick.
MaxTick == 3
\* GameEnd is called at most MaxEpisodes times on one MixedAI.
MaxEpisodes == 3
\* The generator's outputs are drawn from 0..MaxRng.
MaxRng == 3
\* The args string of the constructor holds at most MaxFields fields (SpecCtor).
MaxFields == 3
\* A TrainedAI is configured with 1..MaxFrames frames (SpecTrained).
MaxFrames == 3
\* extract is called at most MaxPushes times on one TrainedAI.
MaxPushes == 4

Ticks == 0 .. MaxTick
RngOutputs == 0 .. MaxRng

\* Identities and state references the driver binds; NoId / NoRef are the
\* unbound values of AI_T::_id and AI_T::_state.
NoId == "unbound"
NoRef == "null"
Ids == {"X1"}
Refs == {"Y1"}
\* What an agent handed to SetMainAI held before: nothing, or an id and a
\* state reference of its own.
Priors == { <<NoId, NoRef>>, <<"X0", "Y0">> }

\* _latest_start_decay is a float; the model keeps it as a fixed-point number
\* of 1/DecayDen.  The decays used are multiples of 1/4, which a float holds
\* exactly, and the products with the small starts used are exact as well.
DecayDen == 100

\* ------------------------------------------------------------- arithmetic
\* C++ conversion of a / b (b > 0) to int: truncation toward zero.
TruncDiv(a, b) == IF a >= 0 THEN a \div b ELSE -((-a) \div b)

RECURSIVE Pow(_, _)
Pow(b, n) == IF n = 0 THEN 1 ELSE b * Pow(b, n - 1)

\* Nearest integer to n / d for n >= 0, d > 0 (halves upward).
RoundDiv(n, d) == (2 * n + d) \div (2 * d)

\* ---------------------------------------------------------------- strings
\* A string whose characters matter (a value that is parsed or compared) is
\* a tuple of one-character strings.
DigitVal == "0" :> 0 @@ "1" :> 1 @@ "2" :> 2 @@ "3" :> 3 @@ "4" :> 4 @@
            "5" :> 5 @@ "6" :> 6 @@ "7" :> 7 @@ "8" :> 8 @@ "9" :> 9
IsDigit(c) == c \in DOMAIN DigitVal

\* Number of leading digits of v from position i on.
RECURSIVE DigitRun(_, _)
DigitRun(v, i) ==
  IF i <= Len(v) /\ IsDigit(v[i]) THEN 1 + DigitRun(v, i + 1) ELSE 0

\* Value of the n digits of v that start at position i.
RECURSIVE DigitsValue(_, _, _)
DigitsValue(v, i, n) ==
  IF n = 0 THEN 0
  ELSE 10 * DigitsValue(v, i, n - 1) + DigitVal[v[i + n - 1]]

HasSign(v) == Len(v) > 0 /\ v[1] \in {"-", "+"}
SignOf(v) == IF Len(v) > 0 /\ v[1] = "-" THEN -1 ELSE 1

\* std::stoi: an optional sign, then the longest run of digits; what follows
\* is ignored; no digit at all throws std::invalid_argument (ok = FALSE).
stoi(v) ==
  LET i == IF HasSign(v) THEN 2 ELSE 1
      n == DigitRun(v, i)
  IN  [ok |-> n > 0, val |-> SignOf(v) * DigitsValue(v, i, n)]

\* std::stof, in units of 1/DecayDen: an optional sign, digits, an optional
\* '.' and digits (two fraction digits are kept); no digit at all throws.
stof(v) ==
  LET i  == IF HasSign(v) THEN 2 ELSE 1
      n  == DigitRun(v, i)
      j  == i + n
      m  == IF j <= Len(v) /\ v[j] = "." THEN DigitRun(v, j + 1) ELSE 0
      f1 == IF m >= 1 THEN DigitVal[v[j + 1]] ELSE 0
      f2 == IF m >= 2 THEN DigitVal[v[j + 2]] ELSE 0
  IN  [ok  |-> n + m > 0,
       val |-> SignOf(v) * (DecayDen * DigitsValue(v, i, n) + 10 * f1 + f2)]

AI_SIMPLE == <<"A","I","_","S","I","M","P","L","E">>
ai_simple == <<"a","i","_","s","i","m","p","l","e">>
AI_HIT_AND_RUN == <<"A","I","_","H","I","T","_","A","N","D","_","R","U","N">>
ai_hit_and_run == <<"a","i","_","h","i","t","_","a","n","d","_","r","u","n">>

\* ------------------------------------------------------------ construction
\* args after CmdLineUtils::split(args, '|') and split(item, '/'): a sequence
\* of fields, each the sequence of its '/'-separated parts; the first part is
\* the key (compared as a whole), the others are character tuples.

\* MixedAI::_parse: fields that do not have exactly two parts are skipped;
\* std::map::insert keeps the entry a key already has.
RECURSIVE parse_from(_, _, _)
parse_from(items, i, kvmap) ==
  IF i > Len(items) THEN kvmap
  ELSE LET kv == items[i]
       IN  IF Len(kv) # 2 \/ kv[1] \in DOMAIN kvmap
           THEN parse_from(items, i + 1, kvmap)
           ELSE parse_from(items, i + 1, kvmap @@ (kv[1] :> kv[2]))

EmptyMap == [k \in {} |-> <<>>]
parse(a) == parse_from(a, 1, EmptyMap)

\* The backup agent the constructor creates for a backup name.
BackupKindCaseMut(name) ==
  IF name = ai_simple THEN "SimpleAI"
  ELSE IF name = ai_hit_and_run THEN "HitAndRunAI"
  ELSE "null"
BackupKind(name) ==
  IF name = AI_SIMPLE \/ name = ai_simple THEN "SimpleAI"
  ELSE IF name = AI_HIT_AND_RUN \/ name = ai_hit_and_run THEN "HitAndRunAI"
  ELSE "null"

\* Member initialisers of MixedAI.
InitThresMut == 0 + 1
InitThres == 0
InitLatestStart == 0
InitDecayOne == DecayDen
InitDecay == 0

\* The constructor's result for args a: ok = FALSE when std::stoi or
\* std::stof threw (the object is never built); otherwise the three members
\* it sets.  An empty args leaves the defaults.
Ctor(a) ==
  LET kv == parse(a)
      st == IF "start" \in DOMAIN kv THEN stoi(kv["start"])
            ELSE [ok |-> TRUE, val |-> InitLatestStart]
      de == IF "decay" \in DOMAIN kv THEN stof(kv["decay"])
            ELSE [ok |-> TRUE, val |-> InitDecay]
      bk == IF "backup" \in DOMAIN kv THEN BackupKind(kv["backup"]) ELSE "null"
  IN  IF st.ok /\ de.ok
      THEN [ok |-> TRUE, latest_start |-> st.val, decay |-> de.val, backup |-> bk]
      ELSE [ok |-> FALSE, latest_start |-> 0, decay |-> 0, backup |-> "null"]

\* Arguments the constructor is given in Spec: a few configurations that
\* cover every branch of the constructor and of GameEnd.
F(k, v) == <<k, v>>
MainArgs ==
  { <<>>,
    << F("start", <<"3">>), F("decay", <<"0",".","5">>), F("backup", ai_simple) >>,
    << F("backup", AI_HIT_AND_RUN), F("start", <<"2">>), F("decay", <<"1">>) >>,
    << F("start", <<"3">>), F("decay", <<"0",".","7","5">>) >>,
    << F("start", <<"2">>), F("backup", AI_SIMPLE), F("start", <<"9">>) >>,
    << F("start", <<"-","2">>), F("decay", <<"1">>), F("backup", ai_simple) >>,
    << F("start", <<"-","3">>), F("decay", <<"1">>), F("backup", ai_hit_and_run) >>,
    << F("start", <<"-","5">>), F("decay", <<"0",".","5">>) >>,
    << F("start", <<"x">>), F("backup", ai_simple) >> }

\* What the constructor reads from each of them.
MainCfg == [a \in MainArgs |-> Ctor(a)]

\* ------------------------------------------------------------------ state
VARIABLES
  pc,                    \* "new", "live", "aborted" (constructor threw), "crashed"
  args,                  \* AIOptions::args, split into fields
  latest_start,          \* MixedAI::_latest_start (int)
  latest_start_decay,    \* MixedAI::_latest_start_decay, in 1/DecayDen
  backup_ai_tick_thres,  \* MixedAI::_backup_ai_tick_thres
  backup_ai,             \* MixedAI::_backup_ai: [kind, id, s]
  main_ai,               \* MixedAI::_main_ai: [kind, id, s]
  id,                    \* AI_T::_id of the MixedAI
  s_ptr,                 \* AI_T::_state of the MixedAI
  episodes,              \* number of GameEnd calls so far
  mainFrom,              \* least tick of this episode delegated to main, or -1
  backupUpTo,            \* greatest tick of this episode delegated to backup, or -1
  handed,                \* values each sub-agent was given by SetId / SetState
  lastCall,              \* the last Act or GameEnd: inputs, callee, results
  num_frames_in_state,   \* AIOptions::num_frames_in_state of a TrainedAI
  recent_states,         \* TrainedAI::_recent_states: [maxlen, slots, head, sz]
  pushed,                \* every feature vector extract has computed, in order
  payload,               \* the window extract copied into the outgoing data
  trainedEnds,           \* number of TrainedAI::GameEnd calls so far
  seed,                  \* time(NULL) when the MixedAI instances were built
  divZero,               \* what a remainder by zero does in this build
  twin                   \* two MixedAI instances built from args in that second

mixedVars == << pc, args, latest_start, latest_start_decay,
                backup_ai_tick_thres, backup_ai, main_ai, id, s_ptr, episodes,
                mainFrom, backupUpTo, handed, lastCall >>
trainedVars == << num_frames_in_state, recent_states, pushed, payload,
                  trainedEnds >>
twinVars == << seed, divZero, twin >>
vars == << mixedVars, trainedVars, twinVars >>

Slots == {"a1", "a2"}
NullAI == [kind |-> "null", id |-> NoId, s |-> NoRef]
\* lastCall: op, the tick of an Act, the sub-agents invoked, whether the
\* callee received the caller's arguments, whether the call returned the
\* callee's result, whether a main agent existed, whether AI::GameEnd's
\* result differed from main's, whether backup had acted in the episode.
\* mainFirst: main's GameEnd ran before the curriculum values changed.
NoCall == [op |-> "none", t |-> 0, invoked |-> {}, argsSame |-> TRUE,
           retSame |-> TRUE, mainPresent |-> FALSE, baseDiffers |-> FALSE,
           backupUsed |-> FALSE, mainFirst |-> TRUE]
NoneHanded == [bid |-> {}, bs |-> {}, mid |-> {}, ms |-> {}]

\* Member initialisers (lines 143-156) before the constructor body runs.
InitMembers ==
  /\ pc = "new"
  /\ latest_start = InitLatestStart
  /\ latest_start_decay = InitDecay
  /\ backup_ai_tick_thres = InitThres
  /\ backup_ai = NullAI
  /\ main_ai = NullAI
  /\ id = NoId
  /\ s_ptr = NoRef
  /\ episodes = 0
  /\ mainFrom = -1
  /\ backupUpTo = -1
  /\ handed = NoneHanded
  /\ lastCall = NoCall

\* TrainedAI(opt): _recent_states is built with opt.num_frames_in_state
\* slots, and every slot is cleared.
QueueCapacityOff(n) == n + 1
QueueCapacity(n) == n
EmptySlot == << >>
NewQueue(n) == [maxlen |-> n, slots |-> [i \in 0 .. n - 1 |-> EmptySlot],
                head |-> 0, sz |-> 0]
TrainedCtor(n) ==
  /\ num_frames_in_state = n
  /\ recent_states = NewQueue(QueueCapacity(n))
  /\ pushed = << >>
  /\ payload = << >>
  /\ trainedEnds = 0

\* TrainedAI(): one frame.
DefaultFrames == 1

\* Two MixedAI objects.  Each has its own _rng, _latest_start and
\* _backup_ai_tick_thres; draws counts the calls of its _rng(), sampled lists
\* the thresholds it has sampled, to and endT tell where its last Act went
\* and the tick of its last GameEnd.
Instances == {"A", "B"}
Seeds == 0 .. MaxRng
\* A remainder by zero traps, or leaves a value that the same machine code
\* computes from the same operands: the dividend, or zero.
DivZeroOutcomes == {"trap", "dividend", "zero"}
Constructed(cfg) ==
  [pc |-> "live", latest_start |-> cfg.latest_start, thres |-> InitThres,
   draws |-> 0, episodes |-> 0, to |-> "none", endT |-> -1, sampled |-> << >>]
NoTwin ==
  /\ seed = 0
  /\ divZero = "trap"
  /\ twin = [i \in Instances |->
               Constructed([latest_start |-> InitLatestStart])]

Init ==
  args \in MainArgs /\ InitMembers /\ TrainedCtor(DefaultFrames) /\ NoTwin

\* MixedAI::MixedAI.  A backup agent, when created, is given id() and, if
\* s_ptr() is set, s(): in the constructor both are still unbound.
Construct ==
  /\ pc = "new"
  /\ LET r == Ctor(args)
     IN  IF r.ok
         THEN /\ pc' = "live"
              /\ latest_start' = r.latest_start
              /\ latest_start_decay' = r.decay
              /\ backup_ai' = [kind |-> r.backup, id |-> id,
                               s |-> IF r.backup # "null" /\ s_ptr # NoRef
                                     THEN s_ptr ELSE NoRef]
              /\ handed' = IF r.backup = "null" THEN handed
                           ELSE [handed EXCEPT !.bid = {id},
                                   !.bs = IF s_ptr # NoRef THEN {s_ptr} ELSE {}]
         ELSE /\ pc' = "aborted"
              /\ UNCHANGED << latest_start, latest_start_decay, backup_ai, handed >>
  /\ UNCHANGED << args, backup_ai_tick_thres, main_ai, id, s_ptr, episodes,
                  mainFrom, backupUpTo, lastCall >>

\* ---------------------------------------------------------------- binding
\* AI_T::SetId(v) binds the id once (a repeated call carries the same id)
\* and calls on_set_id; MixedAI::on_set_id hands id() to the backup and the
\* main agent that exist.
SubSetId(sub, v) == IF sub.kind = "null" THEN sub ELSE [sub EXCEPT !.id = v]
SubSetState(sub, y) == IF sub.kind = "null" THEN sub ELSE [sub EXCEPT !.s = y]
Given(sub, seen, v) == IF sub.kind = "null" THEN seen ELSE seen \cup {v}

on_set_id_drops(b, m, v) == << NullAI, SubSetId(m, v) >>
on_set_id(b, m, v) == << SubSetId(b, v), SubSetId(m, v) >>

on_set_state(b, m, y) == << SubSetState(b, y), SubSetState(m, y) >>

SetId(x) ==
  /\ pc = "live"
  /\ id \in {NoId, x}
  /\ id' = x
  /\ backup_ai' = on_set_id(backup_ai, main_ai, x)[1]
  /\ main_ai' = on_set_id(backup_ai, main_ai, x)[2]
  /\ handed' = [handed EXCEPT !.bid = Given(backup_ai, @, x),
                              !.mid = Given(main_ai, @, x)]
  /\ UNCHANGED << pc, args, latest_start, latest_start_decay,
                  backup_ai_tick_thres, s_ptr, episodes, mainFrom, backupUpTo,
                  lastCall >>

SetState(y) ==
  /\ pc = "live"
  /\ s_ptr \in {NoRef, y}
  /\ s_ptr' = y
  /\ backup_ai' = on_set_state(backup_ai, main_ai, y)[1]
  /\ main_ai' = on_set_state(backup_ai, main_ai, y)[2]
  /\ handed' = [handed EXCEPT !.bs = Given(backup_ai, @, y),
                              !.ms = Given(main_ai, @, y)]
  /\ UNCHANGED << pc, args, latest_start, latest_start_decay,
                  backup_ai_tick_thres, id, episodes, mainFrom, backupUpTo,
                  lastCall >>

\* MixedAI::SetMainAI(main_ai) for an agent that held id pid and state
\* reference ps before: it is given id() always and s() only when s_ptr()
\* is set.
InstalledMainNoState(cur_id, cur_s, pid, ps) ==
  [kind |-> "AI", id |-> cur_id, s |-> ps]
InstalledMain(cur_id, cur_s, pid, ps) ==
  [kind |-> "AI", id |-> cur_id, s |-> IF cur_s # NoRef THEN cur_s ELSE ps]

SetMainAI(pid, ps) ==
  /\ pc = "live"
  /\ main_ai' = InstalledMain(id, s_ptr, pid, ps)
  /\ handed' = [handed EXCEPT !.mid = {id},
                              !.ms = IF s_ptr # NoRef THEN {s_ptr} ELSE {}]
  /\ UNCHANGED << pc, args, latest_start, latest_start_decay,
                  backup_ai_tick_thres, backup_ai, id, s_ptr, episodes,
                  mainFrom, backupUpTo, lastCall >>

\* SetMainAI(nullptr): _main_ai->SetId dereferences the null pointer.
SetMainAINull ==
  /\ pc = "live"
  /\ pc' = "crashed"
  /\ main_ai' = NullAI
  /\ handed' = [handed EXCEPT !.mid = {}, !.ms = {}]
  /\ lastCall' = NoCall
  /\ UNCHANGED << args, latest_start, latest_start_decay, backup_ai_tick_thres,
                  backup_ai, id, s_ptr, episodes, mainFrom, backupUpTo >>

\* -------------------------------------------------------------------- Act
\* The condition of MixedAI::on_act.
UseBackupLe(b, thres, t) == b.kind # "null" /\ t <= thres
UseBackupRev(b, thres, t) == b.kind # "null" /\ t >= thres
UseBackup(b, thres, t) == b.kind # "null" /\ t < thres

\* What on_act passes to the sub-agent and what it returns of its result r.
ActForward(t, a, done, r) ==
  [ct |-> t, ca |-> a, cdone |-> done, cret |-> r, ret |-> r]

Min(x, y) == IF x < y THEN x ELSE y
Max(x, y) == IF x > y THEN x ELSE y

\* AI_T::Act(t, a, done) runs on_act; r is the result of the sub-agent's Act.
\* With no main agent, the main branch dereferences a null pointer.
Act(t, a, done, r) ==
  /\ pc = "live"
  /\ LET toBackup == UseBackup(backup_ai, backup_ai_tick_thres, t)
         fw == ActForward(t, a, done, r)
         call == [NoCall EXCEPT !.op = "Act", !.t = t,
                                !.mainPresent = main_ai.kind # "null"]
         served == [call EXCEPT
                      !.argsSame = (fw.ct = t /\ fw.ca = a /\ fw.cdone = done),
                      !.retSame = (fw.ret = fw.cret)]
     IN  IF toBackup
         THEN /\ lastCall' = [served EXCEPT !.invoked = {"backup"}]
              /\ backupUpTo' = Max(backupUpTo, t)
              /\ UNCHANGED << pc, mainFrom >>
         ELSE IF main_ai.kind = "null"
         THEN /\ pc' = "crashed"
              /\ lastCall' = call
              /\ UNCHANGED << mainFrom, backupUpTo >>
         ELSE /\ lastCall' = [served EXCEPT !.invoked = {"main"}]
              /\ mainFrom' = IF mainFrom < 0 THEN t ELSE Min(mainFrom, t)
              /\ UNCHANGED << pc, backupUpTo >>
  /\ UNCHANGED << args, latest_start, latest_start_decay, backup_ai_tick_thres,
                  backup_ai, main_ai, id, s_ptr, episodes, handed >>

\* ---------------------------------------------------------------- GameEnd
\* _latest_start *= _latest_start_decay: the int is converted to float,
\* multiplied, and the product converted back to int (truncation).
DecayedNone(ls, decay) == ls
DecayedCeil(ls, decay) == -TruncDiv(-(ls * decay) - (DecayDen - 1), DecayDen)
Decayed(ls, decay) == TruncDiv(ls * decay, DecayDen)

\* int(_latest_start + 0.5) + 1, the modulus of the sample.
SampleBound(ls) == TruncDiv(2 * ls + 1, 2) + 1

\* The bound of the sample is taken from the decayed value (line 132 comes
\* before line 136).
BoundSourceStale(before, after) == before
BoundSource(before, after) == after

\* The value GameEnd returns, given the results of AI::GameEnd and of
\* _main_ai->GameEnd.
GameEndResultBoth(br, mr) == br /\ mr
GameEndResult(br, mr) == mr

\* The tick GameEnd passes to _main_ai->GameEnd.
MainGameEndTick(t) == t

\* The sub-agents whose GameEnd is called ("Always ended with main_ai"):
\* _main_ai only, whether or not a backup agent b exists.
GameEndCallees(b) == {"main"}

\* The curriculum value in place when _main_ai->GameEnd runs (line 129 comes
\* before lines 132 and 136): the one from before the decay.
AtMainGameEndLate(before, after) == after
AtMainGameEnd(before, after) == before

\* MixedAI::GameEnd(t): br is the result of AI::GameEnd(t), mr the result of
\* _main_ai->GameEnd(t), r the output of _rng().  Without a main agent the
\* call dereferences a null pointer.  _rng() % m converts m to the unsigned
\* result type of the generator: a negative m becomes larger than every
\* output, so the remainder is r itself; m = 0 is a division by zero, which
\* either traps or leaves some value.
GameEnd(t, br, mr, r) ==
  /\ pc = "live"
  /\ episodes < MaxEpisodes
  /\ IF main_ai.kind = "null"
     THEN /\ pc' = "crashed"
          /\ lastCall' = [NoCall EXCEPT !.op = "GameEnd"]
          /\ UNCHANGED << latest_start, backup_ai_tick_thres, episodes,
                          mainFrom, backupUpTo >>
     ELSE LET ls2 == Decayed(latest_start, latest_start_decay)
              m   == SampleBound(BoundSource(latest_start, ls2))
          IN  /\ latest_start' = ls2
              /\ episodes' = episodes + 1
              /\ mainFrom' = -1
              /\ backupUpTo' = -1
              /\ lastCall' = [NoCall EXCEPT !.op = "GameEnd",
                                !.invoked = GameEndCallees(backup_ai),
                                !.argsSame = (MainGameEndTick(t) = t),
                                !.mainFirst =
                                   (AtMainGameEnd(latest_start, ls2) = latest_start),
                                !.retSame = (GameEndResult(br, mr) = mr),
                                !.mainPresent = TRUE,
                                !.baseDiffers = (br # mr),
                                !.backupUsed = backupUpTo >= 0]
              /\ IF m > 0
                 THEN /\ backup_ai_tick_thres' = r % m
                      /\ pc' = pc
                 ELSE IF m < 0
                 THEN /\ backup_ai_tick_thres' = r
                      /\ pc' = pc
                 ELSE \/ /\ pc' = "crashed"
                         /\ UNCHANGED backup_ai_tick_thres
                      \/ /\ backup_ai_tick_thres' = r
                         /\ pc' = pc
  /\ UNCHANGED << args, latest_start_decay, backup_ai, main_ai, id, s_ptr,
                  handed >>

\* ------------------------------------------------------------ specification
MixedNext ==
  \/ Construct
  \/ \E x \in Ids : SetId(x)
  \/ \E y \in Refs : SetState(y)
  \/ \E p \in Priors : SetMainAI(p[1], p[2])
  \/ SetMainAINull
  \/ \E t \in Ticks, a \in Slots, done \in BOOLEAN, r \in BOOLEAN :
       Act(t, a, done, r)
  \/ \E t \in Ticks, br \in BOOLEAN, mr \in BOOLEAN, r \in RngOutputs :
       GameEnd(t, br, mr, r)

Next == MixedNext /\ UNCHANGED << trainedVars, twinVars >>

Spec == Init /\ [][Next]_vars

\* The constructor alone, over every args of at most MaxFields fields drawn
\* from FieldPool: well-formed fields of every recognised key, a start and a
\* decay that are no numbers, an unknown backup name, an unrecognised key, and a field
\* without a value.
FieldPool ==
  { F("start", <<"1","0">>), F("start", <<"3">>), F("start", <<"x">>),
    F("decay", <<"0",".","5">>), F("decay", <<"1">>), F("decay", <<"y">>),
    F("backup", ai_simple), F("backup", AI_HIT_AND_RUN),
    F("backup", <<"l","u","a">>), F("foo", <<"b","a","r">>), <<"start">> }

AllArgs == UNION { [1 .. n -> FieldPool] : n \in 0 .. MaxFields }

InitCtor ==
  args \in AllArgs /\ InitMembers /\ TrainedCtor(DefaultFrames) /\ NoTwin
NextCtor == Construct /\ UNCHANGED << trainedVars, twinVars >>
SpecCtor == InitCtor /\ [][NextCtor]_vars

\* -------------------------------------------------------------- TrainedAI
\* CircularQueue: a push writes the slot at head, overwriting the oldest
\* entry once all maxlen slots are in use.
Push(q, v) ==
  [q EXCEPT !.slots[q.head] = v,
            !.head = (q.head + 1) % q.maxlen,
            !.sz = Min(q.sz + 1, q.maxlen)]

\* The entries held, oldest first.
Window(q) ==
  [i \in 1 .. q.sz |-> q.slots[(q.head + q.maxlen - q.sz + i - 1) % q.maxlen]]

\* The feature vectors compute_state can produce.
Features == { <<1>>, <<2>> }

\* TrainedAI::extract(data): computes the feature vector v of the current
\* state, pushes it, and copies the window into data.
extract(v) ==
  /\ Len(pushed) < MaxPushes
  /\ recent_states' = Push(recent_states, v)
  /\ payload' = Window(recent_states')
  /\ pushed' = Append(pushed, v)
  /\ UNCHANGED << num_frames_in_state, trainedEnds >>

\* TrainedAI::GameEnd(t): the base housekeeping; _recent_states is kept.
TrainedGameEnd(t) ==
  /\ trainedEnds < MaxEpisodes
  /\ trainedEnds' = trainedEnds + 1
  /\ UNCHANGED << num_frames_in_state, recent_states, pushed, payload >>

InitTrained ==
  /\ args = << >> /\ InitMembers /\ NoTwin
  /\ \E n \in 1 .. MaxFrames : TrainedCtor(n)

NextTrained ==
  /\ \/ \E v \in Features : extract(v)
     \/ \E t \in Ticks : TrainedGameEnd(t)
  /\ UNCHANGED << mixedVars, twinVars >>

SpecTrained == InitTrained /\ [][NextTrained]_vars

\* ------------------------------------------------------------ two MixedAIs
\* The n-th output (from 0) of a std::mt19937 seeded with sd: a fixed
\* function of sd and n.
rng(sd, n) == (sd * (n + 1) + n * n) % (MaxRng + 1)

\* What the sample is taken from: the output of _rng(), not the tick t of
\* the GameEnd nor main's result mr.
ThresholdDrawTick(r, t, mr) == (r + t) % (MaxRng + 1)
ThresholdDraw(r, t, mr) == r

\* on_act of instance i.
TwinAct(i, t) ==
  /\ twin[i].pc = "live"
  /\ twin' = [twin EXCEPT ![i].to =
                IF UseBackup([kind |-> MainCfg[args].backup], twin[i].thres, t)
                THEN "backup" ELSE "main"]
  /\ UNCHANGED << seed, divZero >>

\* GameEnd of instance i, which has a main agent whose GameEnd returns mr.
TwinGameEnd(i, t, mr) ==
  /\ twin[i].pc = "live"
  /\ twin[i].episodes < MaxEpisodes
  /\ LET x    == twin[i]
         ls2  == Decayed(x.latest_start, MainCfg[args].decay)
         m    == SampleBound(BoundSource(x.latest_start, ls2))
         r    == ThresholdDraw(rng(seed, x.draws), t, mr)
         trap == m = 0 /\ divZero = "trap"
         th   == IF m > 0 THEN r % m
                 ELSE IF m < 0 \/ divZero = "dividend" THEN r
                 ELSE 0
     IN  twin' = [twin EXCEPT ![i] =
                   [x EXCEPT !.latest_start = ls2,
                             !.draws = @ + 1,
                             !.episodes = @ + 1,
                             !.to = "none",
                             !.endT = t,
                             !.pc = IF trap THEN "crashed" ELSE @,
                             !.thres = IF trap THEN @ ELSE th,
                             !.sampled = IF trap THEN @ ELSE Append(@, th)]]
  /\ UNCHANGED << seed, divZero >>

InitTwin ==
  /\ args \in { a \in MainArgs : MainCfg[a].ok /\ MainCfg[a].backup # "null" }
  /\ InitMembers /\ TrainedCtor(DefaultFrames)
  /\ seed \in Seeds
  /\ divZero \in DivZeroOutcomes
  /\ twin = [i \in Instances |-> Constructed(MainCfg[args])]

NextTwin ==
  /\ \/ \E i \in Instances, t \in Ticks : TwinAct(i, t)
     \/ \E i \in Instances, t \in {0, MaxTick}, mr \in BOOLEAN :
          TwinGameEnd(i, t, mr)
  /\ UNCHANGED << mixedVars, trainedVars >>

SpecTwin == InitTwin /\ [][NextTwin]_vars

\* ------------------------------------------------------------------ claims
\* The configuration the constructor read from args.
Cfg == IF args \in MainArgs THEN MainCfg[args] ELSE Ctor(args)
StartNonNegative == Cfg.ok /\ Cfg.latest_start >= 0
DecayInUnit == Cfg.ok /\ 0 <= Cfg.decay /\ Cfg.decay <= DecayDen

\* C1: an Act at tick t is delegated to backup iff a backup agent exists and
\* t < threshold, and to main otherwise; exactly one sub-agent is invoked, it
\* receives the caller's tick, action slot and cancellation flag, and Act
\* returns its result.  Without a backup agent every Act goes to main.
C1_Delegation ==
  lastCall.op = "Act" =>
    /\ ("backup" \in lastCall.invoked) <=>
         (backup_ai.kind # "null" /\ lastCall.t < backup_ai_tick_thres)
    /\ pc = "live" =>
         /\ Cardinality(lastCall.invoked) = 1
         /\ lastCall.invoked \subseteq {"backup", "main"}
         /\ lastCall.argsSame
         /\ lastCall.retSame
    /\ (pc = "live" /\ backup_ai.kind = "null") => lastCall.invoked = {"main"}

\* An Act at the last tick below a positive threshold went to backup while a
\* main agent was installed.
C1_Witness ==
  /\ pc = "live"
  /\ lastCall.op = "Act"
  /\ lastCall.invoked = {"backup"}
  /\ lastCall.t + 1 = backup_ai_tick_thres
  /\ main_ai.kind # "null"

\* C2: within one episode, once an Act at t1 went to main, no Act at a later
\* tick t2 > t1 goes to backup.
C2_Monotone == mainFrom >= 0 => backupUpTo < mainFrom

\* An episode in which backup served up to some tick and main took over at
\* the next one.
C2_Witness == backupUpTo >= 0 /\ mainFrom = backupUpTo + 1 /\ episodes >= 1

\* C3: GameEnd returns the result of main's GameEnd, whatever AI::GameEnd
\* returned and whether or not a backup exists or acted in the episode.
C3_GameEndReturnsMain ==
  (lastCall.op = "GameEnd" /\ lastCall.invoked = {"main"}) => lastCall.retSame

\* A GameEnd after an episode in which backup acted, where AI::GameEnd and
\* main's GameEnd returned different results.
C3_Witness ==
  /\ lastCall.op = "GameEnd"
  /\ lastCall.invoked = {"main"}
  /\ lastCall.baseDiffers
  /\ lastCall.backupUsed
  /\ backup_ai.kind # "null"

\* C4: an Act on a MixedAI without a main agent never returns normally: no
\* sub-agent serves it, and the call is fatal.
C4_NoMainIsFatal ==
  (lastCall.op = "Act" /\ ~lastCall.mainPresent) =>
    (pc = "crashed" /\ lastCall.invoked = {})

\* An Act without a main agent on a MixedAI that has a backup agent, bound
\* to its id and state: it crashed.
C4_Witness ==
  /\ lastCall.op = "Act"
  /\ ~lastCall.mainPresent
  /\ pc = "crashed"
  /\ backup_ai.kind # "null"
  /\ id # NoId

\* C5: with start >= 0 and decay in [0,1], in every state
\* 0 <= threshold <= round(latestStart), latestStart being the current value.
C5_ThresholdInRange ==
  (StartNonNegative /\ DecayInUnit) =>
    /\ 0 <= backup_ai_tick_thres
    /\ backup_ai_tick_thres <= RoundDiv(latest_start, 1)

\* After a GameEnd that decayed latestStart to a smaller positive value, the
\* sampled threshold is that value.
C5_Witness ==
  /\ episodes >= 1
  /\ 0 < latest_start
  /\ latest_start < Cfg.latest_start
  /\ backup_ai_tick_thres = latest_start

\* C6: with start = S >= 0 and decay = D, after k GameEnd calls the threshold
\* lies in [0, round(S * D^k)].
C6_BoundAfterK ==
  (StartNonNegative /\ Cfg.decay >= 0) =>
    /\ 0 <= backup_ai_tick_thres
    /\ backup_ai_tick_thres <=
         RoundDiv(Cfg.latest_start * Pow(Cfg.decay, episodes),
                  Pow(DecayDen, episodes))

\* After two episodes with a decay below 1 the threshold is still positive.
C6_Witness ==
  /\ episodes >= 2
  /\ Cfg.decay < DecayDen
  /\ backup_ai_tick_thres >= 1

GameEndCompleted == episodes' = episodes + 1

\* C7 as stated, for a positive start: with decay < 1 the bound
\* round(latestStart) is strictly smaller after every GameEnd than it was
\* before it.
C7_StrictlySmallerEachGameEnd ==
  [][(GameEndCompleted /\ Cfg.ok /\ Cfg.latest_start > 0 /\ DecayInUnit
        /\ Cfg.decay < DecayDen)
       => RoundDiv(latest_start', 1) < RoundDiv(latest_start, 1)]_vars

\* C7 as amended: with decay in [0,1) and start = S >= 0, a GameEnd makes
\* round(latestStart) strictly smaller while it is positive and leaves it 0
\* once it is 0; after S GameEnd calls it is 0.
C7_SmallerUntilZero ==
  [][(GameEndCompleted /\ StartNonNegative /\ DecayInUnit /\ Cfg.decay < DecayDen)
       => /\ IF RoundDiv(latest_start, 1) > 0
             THEN /\ RoundDiv(latest_start', 1) < RoundDiv(latest_start, 1)
                  /\ RoundDiv(latest_start', 1) >= 0
             ELSE RoundDiv(latest_start', 1) = 0
          /\ episodes' >= Cfg.latest_start => latest_start' = 0]_vars

\* A positive start has decayed to 0 and a further GameEnd has left it 0.
C7_Witness ==
  /\ Cfg.ok
  /\ Cfg.latest_start > 0
  /\ 0 < Cfg.decay /\ Cfg.decay < DecayDen
  /\ latest_start = 0
  /\ episodes = MaxEpisodes

\* C8: once SetId(X), SetState(Y) and SetMainAI have all occurred, in any
\* order, main and (when present) backup hold id X and state reference Y; so
\* no sub-agent acts for a bound MixedAI without them.
C8_SubAgentsBound ==
  (id # NoId /\ s_ptr # NoRef /\ main_ai.kind # "null") =>
    /\ main_ai.id = id
    /\ main_ai.s = s_ptr
    /\ backup_ai.kind # "null" => (backup_ai.id = id /\ backup_ai.s = s_ptr)

\* A bound MixedAI with both sub-agents, whose main agent was installed
\* after the binding, has served an Act.
C8_Witness ==
  /\ pc = "live"
  /\ id # NoId /\ s_ptr # NoRef
  /\ main_ai.kind # "null" /\ backup_ai.kind # "null"
  /\ handed.mid = {id} /\ handed.ms = {s_ptr}
  /\ lastCall.op = "Act"

\* C9: every sub-agent is given one id and one state reference, once, and is
\* never given the MixedAI's id or state while these are unbound.
C9_BoundOnce ==
  /\ Cardinality(handed.bid) <= 1 /\ Cardinality(handed.mid) <= 1
  /\ Cardinality(handed.bs) <= 1 /\ Cardinality(handed.ms) <= 1
  /\ NoId \notin handed.bid \cup handed.mid
  /\ NoRef \notin handed.bs \cup handed.ms

\* What the numerals and names of FieldPool denote.
StartVal == <<"1","0">> :> 10 @@ <<"3">> :> 3
DecayVal == <<"0",".","5">> :> DecayDen \div 2 @@ <<"1">> :> DecayDen
NamedVariant(name) ==
  IF name \in {ai_simple, AI_SIMPLE} THEN "SimpleAI"
  ELSE IF name \in {ai_hit_and_run, AI_HIT_AND_RUN} THEN "HitAndRunAI"
  ELSE "null"

AllKeyValue(a) == \A i \in 1 .. Len(a) : Len(a[i]) = 2
DistinctKeys(a) ==
  \A i \in 1 .. Len(a), j \in 1 .. Len(a) : i < j => a[i][1] # a[j][1]
HasKey(a, k) == \E i \in 1 .. Len(a) : a[i][1] = k
\* The value of the first field of a whose key is k.
ValueOf(a, k) ==
  a[CHOOSE i \in 1 .. Len(a) :
      a[i][1] = k /\ \A j \in 1 .. i - 1 : a[j][1] # k][2]
Reordered(a, f) == [i \in 1 .. Len(a) |-> a[f[i]]]
InsertAt(a, i, f) == SubSeq(a, 1, i) \o <<f>> \o SubSeq(a, i + 1, Len(a))
Unrecognised == { F("foo", <<"b","a","r">>), F("START", <<"7">>) }
Built == [ok |-> TRUE, latest_start |-> latest_start,
          decay |-> latest_start_decay, backup |-> backup_ai.kind]

\* What C10 says of a constructed MixedAI: the members are the values of the
\* start, decay and backup fields, every reordering of the fields builds the
\* same members, and so does args with an unrecognised field added anywhere.
CtorAsClaimed ==
  /\ HasKey(args, "start") => latest_start = StartVal[ValueOf(args, "start")]
  /\ HasKey(args, "decay") => latest_start_decay = DecayVal[ValueOf(args, "decay")]
  /\ HasKey(args, "backup") =>
       backup_ai.kind = NamedVariant(ValueOf(args, "backup"))
  /\ \A f \in Permutations(1 .. Len(args)) : Ctor(Reordered(args, f)) = Built
  /\ \A u \in Unrecognised, i \in 0 .. Len(args) :
       Ctor(InsertAt(args, i, u)) = Built

\* C10 as stated: for every args made of key/value fields.
C10_AnyFieldOrder ==
  (pc = "live" /\ AllKeyValue(args)) => CtorAsClaimed

\* C10 as amended: for every args made of key/value fields in which no key
\* occurs twice (of two fields with the same key the first one counts, so
\* their order matters).
C10_DistinctKeysAnyOrder ==
  (pc = "live" /\ AllKeyValue(args) /\ DistinctKeys(args)) => CtorAsClaimed

\* A MixedAI built from backup, an unrecognised field and start, in that order.
C10_Witness ==
  /\ pc = "live"
  /\ Len(args) = 3
  /\ args[1][1] = "backup" /\ args[2][1] = "foo" /\ args[3][1] = "start"
  /\ latest_start = 10
  /\ backup_ai.kind = "HitAndRunAI"

\* A field the constructor cannot use: one without a value, or a start or
\* decay whose value is no number.
Offending(f) ==
  \/ Len(f) # 2
  \/ f[1] = "start" /\ ~stoi(f[2]).ok
  \/ f[1] = "decay" /\ ~stof(f[2]).ok
Usable(f) == ~Offending(f)

\* C11: construction never aborts because of args: whatever the fields, the
\* constructor completes, and the members are those the fields built without
\* the offending ones.
C11_NeverAborts ==
  pc # "new" => (pc = "live" /\ Built = Ctor(SelectSeq(args, Usable)))

\* C12: a GameEnd of a MixedAI with a main agent calls GameEnd on main and,
\* when a backup agent exists, on backup too.
C12_GameEndCascades ==
  (lastCall.op = "GameEnd" /\ lastCall.mainPresent) =>
    /\ "main" \in lastCall.invoked
    /\ backup_ai.kind # "null" => "backup" \in lastCall.invoked

\* C14: in a GameEnd, main's GameEnd is called with the same tick and before
\* the curriculum values change; then latestStart is multiplied by decay
\* (the fraction dropped); then threshold is sampled with the decayed
\* latestStart as its bound, never the one from before the decay.  A GameEnd
\* that fails at the call of a missing main agent has changed neither.
C14_GameEndOrder ==
  [][((GameEndCompleted /\ StartNonNegative /\ DecayInUnit) =>
        /\ "main" \in lastCall'.invoked
        /\ lastCall'.argsSame /\ lastCall'.mainFirst
        /\ latest_start' * DecayDen <= latest_start * latest_start_decay
        /\ latest_start * latest_start_decay < (latest_start' + 1) * DecayDen
        /\ 0 <= backup_ai_tick_thres'
        /\ backup_ai_tick_thres' <= latest_start')
     /\
     ((pc = "live" /\ lastCall'.op = "GameEnd" /\ ~lastCall'.mainPresent) =>
        /\ pc' = "crashed"
        /\ UNCHANGED << latest_start, backup_ai_tick_thres >>)]_vars

\* A GameEnd has lowered latestStart and sampled the threshold at the new
\* bound, which lies under the old one.
C14_Witness ==
  /\ lastCall.op = "GameEnd" /\ lastCall.mainPresent
  /\ episodes = 1
  /\ 0 < latest_start /\ latest_start < Cfg.latest_start
  /\ backup_ai_tick_thres = latest_start

\* C15: Act, SetId, SetState and SetMainAI leave threshold and latestStart
\* as they are: only a GameEnd changes them; decay and the presence and
\* variant of the backup agent never change after construction.
C15_Frame ==
  [][pc = "live" =>
       /\ latest_start_decay' = latest_start_decay
       /\ backup_ai'.kind = backup_ai.kind
       /\ ~GameEndCompleted => UNCHANGED << latest_start, backup_ai_tick_thres >>]_vars

\* After a GameEnd that sampled a positive threshold, a bound MixedAI with
\* both sub-agents has served an Act.
C15_Witness ==
  /\ pc = "live"
  /\ episodes >= 1 /\ backup_ai_tick_thres > 0
  /\ id # NoId /\ s_ptr # NoRef
  /\ backup_ai.kind # "null" /\ backup_ai.id = id
  /\ main_ai.kind # "null"
  /\ lastCall.op = "Act"

TruncatedProduct(x, p) ==
  IF p >= 0
  THEN x * DecayDen <= p /\ p < (x + 1) * DecayDen
  ELSE (x - 1) * DecayDen < p /\ p <= x * DecayDen

\* C18: each GameEnd replaces latestStart by latestStart * decay truncated
\* toward zero.  For start S >= 0 and decay < 1, latestStart is 0 after at
\* most S GameEnds; once it is 0 it stays 0, the threshold is 0 and every
\* Act goes to main.
C18_ReachesZero ==
  [][((GameEndCompleted /\ Cfg.ok) =>
        TruncatedProduct(latest_start', latest_start * latest_start_decay))
     /\
     ((StartNonNegative /\ 0 <= Cfg.decay /\ Cfg.decay < DecayDen) =>
        /\ (GameEndCompleted /\ episodes' >= Cfg.latest_start) =>
              latest_start' = 0
        /\ (episodes >= 1 /\ latest_start = 0) =>
              /\ latest_start' = 0
              /\ backup_ai_tick_thres' = 0
              /\ lastCall'.op = "Act" => "backup" \notin lastCall'.invoked)]_vars

\* With start > 0 and 0 < decay < 1, latestStart has reached 0, a further
\* GameEnd has left it 0, and an Act at tick 0 has gone to main although a
\* backup agent exists.
C18_Witness ==
  /\ Cfg.ok /\ Cfg.latest_start > 0
  /\ 0 < Cfg.decay /\ Cfg.decay < DecayDen
  /\ pc = "live" /\ backup_ai.kind # "null"
  /\ episodes = MaxEpisodes /\ latest_start = 0
  /\ lastCall.op = "Act" /\ lastCall.t = 0 /\ lastCall.invoked = {"main"}

\* C19: for every args the constructor accepts with decay in [0,1], whatever
\* the sign of start, the modulus int(latestStart + 0.5) + 1 of the latest
\* GameEnd is at least 1 and the threshold is not negative.
C19_ModulusPositive ==
  (Cfg.ok /\ DecayInUnit /\ episodes >= 1) =>
    /\ SampleBound(latest_start) >= 1
    /\ backup_ai_tick_thres >= 0

\* The last k elements of sequence q.
LastOf(q, k) == SubSeq(q, Len(q) - k + 1, Len(q))

\* C13: after n extract calls on a TrainedAI of C frames the buffer holds,
\* and extract has copied out, the last min(n, C) feature vectors computed,
\* oldest first, so never more than C; GameEnd leaves the buffer as it is.
C13_HistoryWindow ==
  LET n == Len(pushed)
      C == num_frames_in_state
  IN  /\ Len(Window(recent_states)) <= C
      /\ Window(recent_states) = LastOf(pushed, Min(n, C))
      /\ n >= 1 => payload = Window(recent_states)

\* A TrainedAI of two frames has extracted more than two vectors, the last
\* two of them different, and has then seen a GameEnd.
C13_Witness ==
  /\ num_frames_in_state = 2
  /\ Len(pushed) > 2
  /\ payload = << <<1>>, <<2>> >>
  /\ trainedEnds >= 1

\* C20: two MixedAI instances built from the same args in the same second
\* sample the same threshold in every episode, whatever ticks they are
\* passed, whatever their main agents return and however their calls
\* interleave.
C20_SameThresholds ==
  /\ \A k \in 1 .. Min(Len(twin["A"].sampled), Len(twin["B"].sampled)) :
       twin["A"].sampled[k] = twin["B"].sampled[k]
  /\ twin["A"].episodes = twin["B"].episodes =>
       /\ twin["A"].thres = twin["B"].thres
       /\ twin["A"].pc = twin["B"].pc

\* Both instances have sampled MaxEpisodes thresholds, not all equal; their
\* last GameEnds had different ticks, and their last Acts went to different
\* sub-agents.
C20_Witness ==
  /\ Len(twin["A"].sampled) = MaxEpisodes
  /\ Len(twin["B"].sampled) = MaxEpisodes
  /\ twin["A"].sampled[1] # twin["A"].sampled[2]
  /\ twin["A"].endT # twin["B"].endT
  /\ twin["A"].to = "backup" /\ twin["B"].to = "main"

====
